---- MODULE Spec2Model ----
(***************************************************************************)
(* Model of services/semanticRouter.ts: BubbleSemanticRouter.route and the *)
(* tag-driven dispatch loop of runAutonomousAgent.                         *)
(*                                                                         *)
(* A string is a sequence of tokens.  A token is either one of the literal *)
(* tag texts the regular expressions look for, the word "deep" (or its     *)
(* case variant "Deep"), a blank, a line feed, an ordinary letter ("x" in  *)
(* the model's output, "q" in the user's prompt), a run "W" of fifty       *)
(* ordinary letters, or one of the fixed texts the agent itself produces.  *)
(* CharLen gives the number of characters of a token, so String.length is  *)
(* the sum of CharLen over the tokens.                                     *)
(***************************************************************************)
EXTENDS Integers, Sequences, FiniteSets, TLC

(* ---------------------------- bounds ----------------------------------- *)
\* stream chunks consumed by one call, over all hops
MaxChunks == 2
\* files attached to one call
MaxFiles == 1
\* grounding chunks carried by a stream chunk that has grounding metadata
MaxGroundPerChunk == 2

(* ------------------------ program constants ---------------------------- *)
MAX_LOOPS == 2
MemoryMinLength == 50

(* ------------------------------ strings -------------------------------- *)
Actions == {"SEARCH", "DEEP_SEARCH", "THINK", "IMAGE", "CANVAS", "PROJECT", "STUDY", "SIMPLE"}

TagActions == Actions \ {"SIMPLE"}

OpenTag == [DEEP_SEARCH |-> "<DEEP>", SEARCH |-> "<SEARCH>", THINK |-> "<THINK>",
            IMAGE |-> "<IMAGE>", PROJECT |-> "<PROJECT>", CANVAS |-> "<CANVAS>",
            STUDY |-> "<STUDY>"]

CloseTag == [DEEP_SEARCH |-> "</DEEP>", SEARCH |-> "</SEARCH>", THINK |-> "</THINK>",
             IMAGE |-> "</IMAGE>", PROJECT |-> "</PROJECT>", CANVAS |-> "</CANVAS>",
             STUDY |-> "</STUDY>"]

\* what the /i flag of the deep-search pattern additionally accepts
SearchOpenAnyCase == {"<SEARCH>", "<search>"}

SearchCloseAnyCase == {"</SEARCH>", "</search>"}

DeepAnyCase == {"deep", "Deep"}

\* \s of the regular expressions, and the characters String.trim removes
IsSpace(t) == t \in {" ", "\n"}

\* . of the regular expressions: anything but a line terminator
IsDot(t) == t # "\n"

CharLen(t) ==
    CASE t = "W" -> 50
      [] t \in {"x", "q", " ", "\n"} -> 1
      [] t \in DeepAnyCase -> 4
      [] t \in {"<DEEP>", "<THINK>", "<IMAGE>", "<STUDY>"} -> 7
      [] t \in {"</DEEP>", "<SEARCH>", "<search>", "</THINK>", "</IMAGE>", "<CANVAS>", "</STUDY>"} -> 8
      [] t \in {"</SEARCH>", "</search>", "<PROJECT>", "</CANVAS>"} -> 9
      [] t = "</PROJECT>" -> 10
      [] OTHER -> 12

RECURSIVE StringLength(_)
StringLength(s) == IF s = <<>> THEN 0 ELSE CharLen(Head(s)) + StringLength(Tail(s))

RECURSIVE TrimStart(_)
TrimStart(s) == IF s # <<>> /\ IsSpace(Head(s)) THEN TrimStart(Tail(s)) ELSE s

RECURSIVE TrimEnd(_)
TrimEnd(s) ==
    IF s # <<>> /\ IsSpace(s[Len(s)]) THEN TrimEnd(SubSeq(s, 1, Len(s) - 1)) ELSE s

Trim(s) == TrimEnd(TrimStart(s))

\* pat occurs in s at position i
OccursAt(s, pat, i) == i + Len(pat) - 1 <= Len(s) /\ SubSeq(s, i, i + Len(pat) - 1) = pat

RECURSIVE IndexOfFrom(_, _, _)
\* the first position from i on at which pat occurs in s, 0 when there is none
IndexOfFrom(s, pat, i) ==
    IF i + Len(pat) - 1 > Len(s) THEN 0
    ELSE IF OccursAt(s, pat, i) THEN i
    ELSE IndexOfFrom(s, pat, i + 1)

\* String.prototype.replace(pattern, '') with a string pattern: the first
\* occurrence of pattern is removed, later ones stay
ReplaceFirst(s, pat) ==
    IF IndexOfFrom(s, pat, 1) = 0 THEN s
    ELSE SubSeq(s, 1, IndexOfFrom(s, pat, 1) - 1)
         \o SubSeq(s, IndexOfFrom(s, pat, 1) + Len(pat), Len(s))

(* ------------------------- String.match ------------------------------- *)
\* The result of String.match: found = FALSE is null; m0 is match[0], m1 is
\* match[1], has1 = FALSE when the pattern has no group (match[1] undefined).
NoMatch == [found |-> FALSE, m0 |-> <<>>, m1 |-> <<>>, has1 |-> FALSE]

\* variant: the group taken as long as possible, /open(.*)close/
LastCloseGreedy(s, i, closes) ==
    IF {j \in (i + 1)..Len(s) : s[j] \in closes} = {} THEN 0
    ELSE CHOOSE m \in {j \in (i + 1)..Len(s) : s[j] \in closes} :
            \A n \in {j \in (i + 1)..Len(s) : s[j] \in closes} : n <= m

RECURSIVE FirstClose(_, _, _)
\* index of the first token of `closes` after position i, 0 when there is none
FirstClose(s, i, closes) ==
    IF i + 1 > Len(s) THEN 0
    ELSE IF s[i + 1] \in closes THEN i + 1
    ELSE FirstClose(s, i + 1, closes)

\* /open(.*?)close/ matches with its first character at position i
PairAt(s, i, opens, closes) ==
    /\ s[i] \in opens
    /\ FirstClose(s, i, closes) # 0
    /\ \A k \in (i + 1)..(FirstClose(s, i, closes) - 1) : IsDot(s[k])

RECURSIVE MatchPairFrom(_, _, _, _)
\* the match of /open(.*?)close/ at the first position from i on that has one,
\* its group as short as possible
MatchPairFrom(s, i, opens, closes) ==
    IF i > Len(s) THEN NoMatch
    ELSE IF PairAt(s, i, opens, closes)
    THEN [found |-> TRUE, m0 |-> SubSeq(s, i, FirstClose(s, i, closes)),
          m1 |-> SubSeq(s, i + 1, FirstClose(s, i, closes) - 1), has1 |-> TRUE]
    ELSE MatchPairFrom(s, i + 1, opens, closes)

\* s.match(/open(.*?)close/)
MatchPair(s, opens, closes) == MatchPairFrom(s, 1, opens, closes)

\* s.match(/<THINK>/)
MatchLiteral(s, lit) ==
    IF IndexOfFrom(s, <<lit>>, 1) = 0 THEN NoMatch
    ELSE [found |-> TRUE, m0 |-> <<lit>>, m1 |-> <<>>, has1 |-> FALSE]

RECURSIVE SpaceRunEnd(_, _)
\* last position of the run of \s that starts at position i
SpaceRunEnd(s, i) ==
    IF i + 1 <= Len(s) /\ IsSpace(s[i + 1]) THEN SpaceRunEnd(s, i + 1) ELSE i

\* /<SEARCH>deep\s+(.*?)<\/SEARCH>/i matches with its first character at i:
\* \s+ takes the whole run of white space, the group what follows it
DeepSearchAt(s, i) ==
    /\ i + 2 <= Len(s)
    /\ s[i] \in SearchOpenAnyCase
    /\ s[i + 1] \in DeepAnyCase
    /\ IsSpace(s[i + 2])
    /\ FirstClose(s, SpaceRunEnd(s, i + 2), SearchCloseAnyCase) # 0
    /\ \A k \in (SpaceRunEnd(s, i + 2) + 1)..(FirstClose(s, SpaceRunEnd(s, i + 2), SearchCloseAnyCase) - 1) :
          IsDot(s[k])

RECURSIVE MatchDeepSearchFrom(_, _)
MatchDeepSearchFrom(s, i) ==
    IF i > Len(s) THEN NoMatch
    ELSE IF DeepSearchAt(s, i)
    THEN [found |-> TRUE,
          m0 |-> SubSeq(s, i, FirstClose(s, SpaceRunEnd(s, i + 2), SearchCloseAnyCase)),
          m1 |-> SubSeq(s, SpaceRunEnd(s, i + 2) + 1,
                        FirstClose(s, SpaceRunEnd(s, i + 2), SearchCloseAnyCase) - 1),
          has1 |-> TRUE]
    ELSE MatchDeepSearchFrom(s, i + 1)

\* s.match(/<SEARCH>deep\s+(.*?)<\/SEARCH>/i)
MatchDeepSearch(s) == MatchDeepSearchFrom(s, 1)

\* a || b on match results
OrElse(a, b) == IF a.found THEN a ELSE b

(* ----------------------- BubbleSemanticRouter ------------------------- *)
MemoryLayers == <<"inner_personal", "outer_personal", "interests", "preferences",
                  "custom", "codebase", "aesthetic", "project">>

\* variant: a route that sends a query with attached files to CANVAS
routeByFileCount(query, userId, apiKey, fileCount) ==
    [action |-> IF fileCount > 0 THEN "CANVAS" ELSE "SIMPLE", parameters |-> <<>>,
     confidence |-> 1, memoryLayers |-> MemoryLayers, quotaOK |-> TRUE]

\* BubbleSemanticRouter.route: parameters {} is the record without fields
route(query, userId, apiKey, fileCount) ==
    [action |-> "SIMPLE", parameters |-> <<>>, confidence |-> 1,
     memoryLayers |-> MemoryLayers, quotaOK |-> TRUE]

(* ------------------------------ inputs -------------------------------- *)
\* AgentInput: the prompt, the number of attached files (none, or MaxFiles),
\* the ids of the project and the chat, the user id and the api key
Inputs ==
    [prompt : {<<"q">>}, fileCount : {0, MaxFiles}, project_id : {"p1"}, chat_id : {"c1"},
     userId : {"u1"}, apiKey : {"k1"}]

\* values an awaited call can throw: an Error with a message, or something else
ThrownValues == {[isError |-> TRUE, message |-> "quota"], [isError |-> FALSE, message |-> "offline"]}

\* getUserFriendlyError of ../errorUtils, kept as an opaque text per thrown value
getUserFriendlyError(e) == <<"friendly:", e.message>>

\* `e instanceof Error ? e.message : 'Unknown error'`
ErrorMessageOf(e) == IF e.isError THEN e.message ELSE "Unknown error"

\* the text of a tag pair of action a around the content c
Tagged(a, c) == <<OpenTag[a]>> \o c \o <<CloseTag[a]>>

DeepContents == {<<"deep", " ", "x">>, <<"Deep", "\n", " ", "x">>}

\* texts one stream chunk may carry: whole tags (around a word, around
\* nothing, around a word with white space or with a line feed, and for SEARCH
\* around deep, white space and a word), the SEARCH and THINK tags in pieces,
\* and plain text
ChunkTexts ==
    {Tagged(a, <<"x">>) : a \in TagActions}
    \cup {Tagged(a, <<>>) : a \in {"THINK", "IMAGE"}}
    \cup {Tagged("THINK", <<" ", "x", " ">>)}
    \cup {Tagged(a, <<"x", "\n">>) : a \in {"SEARCH", "THINK"}}
    \cup {Tagged("SEARCH", c) : c \in DeepContents}
    \cup {<<"<search>", "deep", " ", "x", "</search>">>}
    \cup {<<OpenTag[a]>> : a \in {"SEARCH", "THINK"}}
    \cup {<<CloseTag[a]>> : a \in {"SEARCH", "THINK"}}
    \cup {<<"x">>, <<"W">>, <<"\n">>}

(* ------------------------------ state --------------------------------- *)
VARIABLES
    input,              \* the AgentInput of the call
    pc,                 \* the await the call is suspended at, or "done"
    routing,            \* let routing
    finalResponseText,  \* let finalResponseText
    metadataPayload,    \* let metadataPayload: the keys set so far
    currentAction,      \* let currentAction
    currentPrompt,      \* let currentPrompt
    loopCount,          \* let loopCount
    generatedThisLoop,  \* let generatedThisLoop of the SIMPLE case
    filesRead,          \* files of input.files already read by the SIMPLE case
    consumed,           \* the stream chunks the for-await loops have consumed
    consoleLog,         \* lines written by console.log in the loop
    requests,           \* the awaited service calls made, with the prompt each was given
    streamed,           \* arguments passed to onStreamChunk, in order
    error,              \* <<e>> once the outer catch has caught e, <<>> before
    messages            \* the messages of the returned AgentExecutionResult

vars == <<input, pc, routing, finalResponseText, metadataPayload, currentAction,
          currentPrompt, loopCount, generatedThisLoop, filesRead, consumed,
          consoleLog, requests, streamed, error, messages>>

Init ==
    /\ input \in Inputs
    /\ pc = "route"
    /\ routing = <<>>
    /\ finalResponseText = <<>>
    /\ metadataPayload = <<>>
    /\ currentAction = "SIMPLE"
    /\ currentPrompt = <<>>
    /\ loopCount = 0
    /\ generatedThisLoop = <<>>
    /\ filesRead = 0
    /\ consumed = <<>>
    /\ consoleLog = <<>>
    /\ requests = <<>>
    /\ streamed = <<>>
    /\ error = <<>>
    /\ messages = <<>>

\* { project_id, chat_id, sender: 'ai', text, ...metadataPayload }
Message(text, payload) ==
    payload @@ [project_id |-> input.project_id, chat_id |-> input.chat_id,
                sender |-> "ai", text |-> text]

\* return { messages: [ ... ] }
Return(text, payload) ==
    /\ messages' = <<Message(text, payload)>>
    /\ pc' = "done"

(* --------------------------- stream chunks ----------------------------- *)
RECURSIVE GroundingOf(_)
\* the grounding chunks carried by a sequence of consumed stream chunks
GroundingOf(cs) == IF cs = <<>> THEN <<>> ELSE Head(cs).gc \o GroundingOf(Tail(cs))

\* k grounding chunks not delivered before, numbered in order of arrival
FreshGrounding(k) == [i \in 1..k |-> Len(GroundingOf(consumed)) + i]

\* a chunk of a generateContentStream response: chunk.text ('' when absent) and
\* chunk.candidates?.[0].groundingMetadata.groundingChunks (<<>> when absent)
StreamChunks ==
    {[text |-> t, gc |-> <<>>] : t \in ChunkTexts \cup {<<>>}}
    \cup {[text |-> t, gc |-> FreshGrounding(MaxGroundPerChunk)] : t \in {<<>>, <<"x">>}}

\* metadataPayload.groundingMetadata.push(...groundingChunks), the array
\* created first when the key is not there
PushGrounding(payload, gc) ==
    IF gc = <<>> THEN payload
    ELSE IF "groundingMetadata" \in DOMAIN payload
         THEN [payload EXCEPT !.groundingMetadata = @ \o gc]
         ELSE ("groundingMetadata" :> gc) @@ payload

(* --------------------------- tag detection ----------------------------- *)
\* TAG DETECTION LOGIC of the SIMPLE case over the text g generated in this
\* loop: whether a tag re-routes, the new currentAction and currentPrompt, and
\* the matched text match[0] that is removed from finalResponseText
TagDetection(g, prompt) ==
    LET searchMatch == MatchPair(g, {"<SEARCH>"}, {"</SEARCH>"})
        deepMatch == OrElse(MatchPair(g, {"<DEEP>"}, {"</DEEP>"}), MatchDeepSearch(g))
        thinkMatch == OrElse(MatchPair(g, {"<THINK>"}, {"</THINK>"}), MatchLiteral(g, "<THINK>"))
        imageMatch == MatchPair(g, {"<IMAGE>"}, {"</IMAGE>"})
        projectMatch == MatchPair(g, {"<PROJECT>"}, {"</PROJECT>"})
        canvasMatch == MatchPair(g, {"<CANVAS>"}, {"</CANVAS>"})
        studyMatch == MatchPair(g, {"<STUDY>"}, {"</STUDY>"})
        Go(a, p, m) == [rerouted |-> TRUE, action |-> a, prompt |-> p, strip |-> m.m0]
    IN  IF deepMatch.found THEN Go("DEEP_SEARCH", deepMatch.m1, deepMatch)
        ELSE IF searchMatch.found THEN Go("SEARCH", searchMatch.m1, searchMatch)
        ELSE IF thinkMatch.found
             THEN Go("THINK",
                     IF thinkMatch.has1 /\ thinkMatch.m1 # <<>> THEN Trim(thinkMatch.m1) ELSE prompt,
                     thinkMatch)
        ELSE IF imageMatch.found THEN Go("IMAGE", imageMatch.m1, imageMatch)
        ELSE IF projectMatch.found THEN Go("PROJECT", projectMatch.m1, projectMatch)
        ELSE IF canvasMatch.found THEN Go("CANVAS", canvasMatch.m1, canvasMatch)
        ELSE IF studyMatch.found THEN Go("STUDY", studyMatch.m1, studyMatch)
        ELSE [rerouted |-> FALSE, action |-> "SIMPLE", prompt |-> <<>>, strip |-> <<>>]

\* variant: the heuristic with >= in place of >
MemoryHeuristicAtLeast(payload, generated, prompt) ==
    IF StringLength(generated) >= MemoryMinLength
    THEN ("memoryToCreate" :> <<[layer |-> "outer_personal", key |-> "last_topic", value |-> prompt]>>)
         @@ payload
    ELSE payload

\* the memory heuristic of the SIMPLE case
MemoryHeuristic(payload, generated, prompt) ==
    IF StringLength(generated) > MemoryMinLength
    THEN ("memoryToCreate" :> <<[layer |-> "outer_personal", key |-> "last_topic", value |-> prompt]>>)
         @@ payload
    ELSE payload

(* ------------------------------ actions -------------------------------- *)
\* let routing = await router.route(prompt, user.id, apiKey, fileCount)
Route ==
    /\ pc = "route"
    /\ routing' = route(input.prompt, input.userId, input.apiKey, input.fileCount)
    /\ pc' = "context"
    /\ UNCHANGED <<input, finalResponseText, metadataPayload, currentAction, currentPrompt,
                   loopCount, generatedThisLoop, filesRead, consumed, consoleLog, requests,
                   streamed, error, messages>>

\* await memory.getContext(...) returns; the locals of the loop are set up
GetContext ==
    /\ pc = "context"
    /\ finalResponseText' = <<>>
    /\ metadataPayload' = <<>>
    /\ currentAction' = routing.action
    /\ currentPrompt' = input.prompt
    /\ loopCount' = 0
    /\ pc' = "loop"
    /\ UNCHANGED <<input, routing, generatedThisLoop, filesRead, consumed, consoleLog,
                   requests, streamed, error, messages>>

\* the pc of the first await of a case of the switch
FirstAwait(action) ==
    CASE action = "DEEP_SEARCH" -> "research"
      [] action = "THINK" -> "increment"
      [] action = "IMAGE" -> "image"
      [] action = "PROJECT" -> "generate"
      [] action \in {"SEARCH", "CANVAS", "STUDY"} -> "open"
      [] OTHER -> IF input.fileCount > 0 THEN "read" ELSE "open"

\* what a case passes to onStreamChunk before its first await
Notice(action) ==
    CASE action = "SEARCH" -> <<<<"\n", "\n", "Searching the web...">>>>
      [] action = "DEEP_SEARCH" -> <<<<"\n", "\n", "Deep Researching...">>>>
      [] action = "THINK" -> <<<<"\n", "\n", "Thinking...">>>>
      [] action = "IMAGE" -> <<<<"image_generation_start">> \o finalResponseText>>
      [] action = "CANVAS" -> <<<<"\n", "\n", "Opening Canvas...">>>>
      [] action = "PROJECT" -> <<<<"\n", "\n", "Building project structure...">>>>
      [] action = "STUDY" -> <<<<"\n", "\n", "Creating study plan...">>>>
      [] OTHER -> <<>>

\* variant: currentAction set from routing.action inside the loop, so that
\* every run of the body starts from the router's decision again
LoopTestResetsAction ==
    /\ pc = "loop"
    /\ IF loopCount < MAX_LOOPS
       THEN /\ loopCount' = loopCount + 1
            /\ currentAction' = routing.action
            /\ consoleLog' = Append(consoleLog, <<loopCount + 1, routing.action>>)
            /\ streamed' = streamed \o Notice(routing.action)
            /\ filesRead' = 0
            /\ pc' = FirstAwait(routing.action)
            /\ UNCHANGED messages
       ELSE /\ Return(finalResponseText, metadataPayload)
            /\ UNCHANGED <<loopCount, consoleLog, streamed, filesRead, currentAction>>
    /\ UNCHANGED <<input, routing, finalResponseText, metadataPayload, currentPrompt,
                   generatedThisLoop, consumed, requests, error>>

\* while (loopCount < MAX_LOOPS) { loopCount++; console.log; switch (currentAction)
\* up to the first await of the case; after the loop, the final return
LoopTest ==
    /\ pc = "loop"
    /\ IF loopCount < MAX_LOOPS
       THEN /\ loopCount' = loopCount + 1
            /\ consoleLog' = Append(consoleLog, <<loopCount + 1, currentAction>>)
            /\ streamed' = streamed \o Notice(currentAction)
            /\ filesRead' = 0
            /\ pc' = FirstAwait(currentAction)
            /\ UNCHANGED messages
       ELSE /\ Return(finalResponseText, metadataPayload)
            /\ UNCHANGED <<loopCount, consoleLog, streamed, filesRead>>
    /\ UNCHANGED <<input, routing, finalResponseText, metadataPayload, currentAction,
                   currentPrompt, generatedThisLoop, consumed, requests, error>>

\* SIMPLE: one file of input.files is read as a data URL
ReadFile ==
    /\ pc = "read"
    /\ filesRead' = filesRead + 1
    /\ pc' = IF filesRead + 1 < input.fileCount THEN "read" ELSE "open"
    /\ UNCHANGED <<input, routing, finalResponseText, metadataPayload, currentAction,
                   currentPrompt, loopCount, generatedThisLoop, consumed, consoleLog,
                   requests, streamed, error, messages>>

\* THINK: await incrementThinkingCount(supabase, user.id)
IncrementThinking ==
    /\ pc = "increment"
    /\ requests' = Append(requests, <<"incrementThinkingCount", <<>>>>)
    /\ pc' = "open"
    /\ UNCHANGED <<input, routing, finalResponseText, metadataPayload, currentAction,
                   currentPrompt, loopCount, generatedThisLoop, filesRead, consumed,
                   consoleLog, streamed, error, messages>>

\* SEARCH, THINK, CANVAS, STUDY, SIMPLE: await ai.models.generateContentStream(...)
OpenStream ==
    /\ pc = "open"
    /\ requests' = Append(requests, <<"generateContentStream", currentPrompt>>)
    /\ generatedThisLoop' = IF currentAction = "SIMPLE" THEN <<>> ELSE generatedThisLoop
    /\ pc' = "stream"
    /\ UNCHANGED <<input, routing, finalResponseText, metadataPayload, currentAction,
                   currentPrompt, loopCount, filesRead, consumed, consoleLog, streamed,
                   error, messages>>

\* the grounding capture of a for-await body: SEARCH captures for every chunk,
\* SIMPLE inside `if (chunk.text)`, the other cases not at all
CaptureGrounding(action, payload, chunk) ==
    CASE action = "SEARCH" -> PushGrounding(payload, chunk.gc)
      [] action = "SIMPLE" -> IF chunk.text # <<>> THEN PushGrounding(payload, chunk.gc) ELSE payload
      [] OTHER -> payload

\* one turn of `for await (const chunk of response)`
StreamChunk ==
    /\ pc = "stream"
    /\ Len(consumed) < MaxChunks
    /\ \E chunk \in StreamChunks :
        /\ consumed' = Append(consumed, [action |-> currentAction, text |-> chunk.text, gc |-> chunk.gc])
        /\ finalResponseText' = finalResponseText \o chunk.text
        /\ generatedThisLoop' =
              IF currentAction = "SIMPLE" THEN generatedThisLoop \o chunk.text ELSE generatedThisLoop
        /\ streamed' = IF chunk.text # <<>> THEN Append(streamed, chunk.text) ELSE streamed
        /\ metadataPayload' = CaptureGrounding(currentAction, metadataPayload, chunk)
    /\ UNCHANGED <<input, pc, routing, currentAction, currentPrompt, loopCount, filesRead,
                   consoleLog, requests, error, messages>>

\* SEARCH, THINK, CANVAS, STUDY: the stream ends and the case returns
StreamEnd ==
    /\ pc = "stream"
    /\ currentAction # "SIMPLE"
    /\ Return(finalResponseText, metadataPayload)
    /\ UNCHANGED <<input, routing, finalResponseText, metadataPayload, currentAction,
                   currentPrompt, loopCount, generatedThisLoop, filesRead, consumed,
                   consoleLog, requests, streamed, error>>

\* SIMPLE: the stream ends; tag detection, then `continue` or the memory
\* heuristic and the return
SimpleStreamEnd ==
    /\ pc = "stream"
    /\ currentAction = "SIMPLE"
    /\ \E d \in {TagDetection(generatedThisLoop, input.prompt)} :
           IF d.rerouted
           THEN /\ currentAction' = d.action
                /\ currentPrompt' = d.prompt
                /\ routing' = IF d.action = "IMAGE"
                              THEN [routing EXCEPT !.parameters = [prompt |-> d.prompt]]
                              ELSE routing
                /\ finalResponseText' = ReplaceFirst(finalResponseText, d.strip)
                /\ pc' = "loop"
                /\ UNCHANGED <<metadataPayload, messages>>
           ELSE /\ metadataPayload' = MemoryHeuristic(metadataPayload, generatedThisLoop, input.prompt)
                /\ Return(finalResponseText, metadataPayload')
                /\ UNCHANGED <<currentAction, currentPrompt, routing, finalResponseText>>
    /\ UNCHANGED <<input, loopCount, generatedThisLoop, filesRead, consumed, consoleLog,
                   requests, streamed, error>>

\* what researchService.deepResearch resolves to
ResearchResults == {[answer |-> "answer", sources |-> <<"source1", "source2">>]}

RECURSIVE Join(_, _)
\* Array.prototype.join
Join(xs, sep) ==
    IF xs = <<>> THEN <<>>
    ELSE IF Len(xs) = 1 THEN <<xs[1]>>
    ELSE <<xs[1], sep>> \o Join(Tail(xs), sep)

\* DEEP_SEARCH: await researchService.deepResearch(currentPrompt, progress)
DeepResearch ==
    /\ pc = "research"
    /\ \E result \in ResearchResults, progress \in SUBSET {"step"} :
        LET researchText == <<result.answer, "\n", "\n", "**Sources:**", "\n">> \o Join(result.sources, "\n")
        IN  /\ requests' = Append(requests, <<"deepResearch", currentPrompt>>)
            /\ finalResponseText' = finalResponseText \o <<"\n", "\n">> \o researchText
            /\ streamed' = streamed \o [i \in 1..Cardinality(progress) |-> <<"\n", "*", "step", "*">>]
                                    \o <<researchText>>
            /\ Return(finalResponseText', metadataPayload)
    /\ UNCHANGED <<input, routing, metadataPayload, currentAction, currentPrompt, loopCount,
                   generatedThisLoop, filesRead, consumed, consoleLog, error>>

\* routing.parameters?.prompt || currentPrompt
ImagePrompt ==
    IF "prompt" \in DOMAIN routing.parameters /\ routing.parameters.prompt # <<>>
    THEN routing.parameters.prompt
    ELSE currentPrompt

\* IMAGE: await generateImage(...) resolves
GenerateImage ==
    /\ pc = "image"
    /\ \E imageBase64 \in {"base64"} :
        /\ requests' = Append(requests, <<"generateImage", ImagePrompt>>)
        /\ Return(finalResponseText,
                  metadataPayload @@ [image_base64 |-> imageBase64, imageStatus |-> "complete"])
    /\ UNCHANGED <<input, routing, finalResponseText, metadataPayload, currentAction,
                   currentPrompt, loopCount, generatedThisLoop, filesRead, consumed,
                   consoleLog, streamed, error>>

\* variant: the message of the outer catch built like the other messages,
\* with the metadata spread into it
ErrorMessageWithPayload(e) ==
    metadataPayload @@ [project_id |-> input.project_id, chat_id |-> input.chat_id,
                        sender |-> "ai",
                        text |-> <<"An error occurred: ">> \o getUserFriendlyError(e)]

\* the message of the outer catch
ErrorMessage(e) ==
    [project_id |-> input.project_id, chat_id |-> input.chat_id, sender |-> "ai",
     text |-> <<"An error occurred: ">> \o getUserFriendlyError(e)]

\* variant: no inner try around generateImage, the rejection reaches the
\* outer catch
GenerateImageFailsOuter ==
    /\ pc = "image"
    /\ \E e \in ThrownValues :
        /\ requests' = Append(requests, <<"generateImage", ImagePrompt>>)
        /\ error' = <<e>>
        /\ messages' = <<ErrorMessage(e)>>
    /\ pc' = "done"
    /\ UNCHANGED <<input, routing, finalResponseText, metadataPayload, currentAction,
                   currentPrompt, loopCount, generatedThisLoop, filesRead, consumed,
                   consoleLog, streamed>>

\* IMAGE: await generateImage(...) throws: the inner catch
GenerateImageFails ==
    /\ pc = "image"
    /\ \E e \in ThrownValues :
        LET errorMsg == <<"\n", "\n", "(Image generation failed: ", ErrorMessageOf(e), ")">>
        IN  /\ requests' = Append(requests, <<"generateImage", ImagePrompt>>)
            /\ finalResponseText' = finalResponseText \o errorMsg
            /\ streamed' = Append(streamed, errorMsg)
            /\ Return(finalResponseText', metadataPayload)
    /\ UNCHANGED <<input, routing, metadataPayload, currentAction, currentPrompt, loopCount,
                   generatedThisLoop, filesRead, consumed, consoleLog, error>>

\* PROJECT: await ai.models.generateContent(...)
GenerateProject ==
    /\ pc = "generate"
    /\ \E text \in {"{json}"} :
        LET projectMsg == <<"\n", "I've designed the project structure based on your request.",
                            "\n", "\n", text, "\n", "\n",
                            "(Switch to Co-Creator mode to fully hydrate and edit these files.)">>
        IN  /\ requests' = Append(requests, <<"generateContent", currentPrompt>>)
            /\ finalResponseText' = finalResponseText \o projectMsg
            /\ streamed' = Append(streamed, projectMsg)
            /\ Return(finalResponseText', metadataPayload)
    /\ UNCHANGED <<input, routing, metadataPayload, currentAction, currentPrompt, loopCount,
                   generatedThisLoop, filesRead, consumed, consoleLog, error>>

\* the awaits inside the outer try whose rejection reaches the outer catch
OuterAwaits == {"context", "read", "increment", "open", "stream", "research", "generate"}

\* an awaited call other than generateImage throws: the outer catch
AwaitThrows ==
    /\ pc \in OuterAwaits
    /\ \E e \in ThrownValues :
        /\ error' = <<e>>
        /\ messages' = <<ErrorMessage(e)>>
    /\ pc' = "done"
    /\ UNCHANGED <<input, routing, finalResponseText, metadataPayload, currentAction,
                   currentPrompt, loopCount, generatedThisLoop, filesRead, consumed,
                   consoleLog, requests, streamed>>

\* an awaited call returns, a stream delivers a chunk or ends, or generateImage
\* throws into the inner catch: the steps that stay inside the try block
AwaitReturns ==
    \/ Route
    \/ GetContext
    \/ LoopTest
    \/ ReadFile
    \/ IncrementThinking
    \/ OpenStream
    \/ StreamEnd
    \/ SimpleStreamEnd
    \/ DeepResearch
    \/ GenerateImage
    \/ GenerateImageFails
    \/ GenerateProject
    \/ StreamChunk

Next == AwaitReturns \/ AwaitThrows

Spec == Init /\ [][Next]_vars

\* every awaited call eventually returns, unless one throws first, and every
\* stream eventually ends
FairSpec == Spec /\ WF_vars(AwaitReturns)

(* ======================= properties of the claims ====================== *)
\* the call has returned from a case of the switch, not from the outer catch
Succeeded == pc = "done" /\ error = <<>>

\* the SIMPLE hop has ended with `continue`
Rerouted == currentAction # "SIMPLE"

Contains(s, pat) == \E i \in 1..Len(s) : OccursAt(s, pat, i)

Has(m, key) == key \in DOMAIN m

\* the pairs <<i, j>> of positions of an opening tag and the nearest closing
\* tag after it with no line feed in between
Pairs(g, opens, closes) ==
    {p \in {i \in 1..Len(g) : g[i] \in opens} \X {j \in 1..Len(g) : g[j] \in closes} :
        /\ p[1] < p[2]
        /\ \A k \in (p[1] + 1)..(p[2] - 1) : g[k] \notin closes /\ g[k] # "\n"}

\* <<i, w, j>>: a SEARCH opening tag at i, in any letter case, followed by the
\* word deep and by white space up to w, and the nearest closing tag at j, with
\* no line feed between w and j
DeepSearchPairs(g) ==
    {p \in {i \in 1..Len(g) : g[i] \in SearchOpenAnyCase} \X (1..Len(g))
            \X {j \in 1..Len(g) : g[j] \in SearchCloseAnyCase} :
        /\ p[1] + 2 <= p[2] /\ p[2] < p[3]
        /\ g[p[1] + 1] \in DeepAnyCase
        /\ \A k \in (p[1] + 2)..p[2] : IsSpace(g[k])
        /\ ~IsSpace(g[p[2] + 1])
        /\ \A k \in (p[2] + 1)..(p[3] - 1) : g[k] \notin SearchCloseAnyCase /\ g[k] # "\n"}

Leftmost(ps) == CHOOSE p \in ps : \A q \in ps : p[1] <= q[1]

PairsOf(g, a) == Pairs(g, {OpenTag[a]}, {CloseTag[a]})

\* the content of the leftmost complete pair of the tag of action a
InnerOf(g, a) ==
    LET p == Leftmost(PairsOf(g, a)) IN SubSeq(g, p[1] + 1, p[2] - 1)

DeepRemainder(g) ==
    LET p == Leftmost(DeepSearchPairs(g)) IN SubSeq(g, p[2] + 1, p[3] - 1)

Min(S) == CHOOSE m \in S : \A n \in S : m <= n

Priority == <<"DEEP_SEARCH", "SEARCH", "THINK", "IMAGE", "PROJECT", "CANVAS", "STUDY">>

\* the action of highest priority among those that D holds of
Highest(D(_)) == Priority[Min({n \in 1..Len(Priority) : D(Priority[n])})]

\* a complete tag pair of action a is in g (for DEEP_SEARCH also a SEARCH pair
\* whose content starts with deep and white space)
CompletePair(g, a) ==
    \/ PairsOf(g, a) # {}
    \/ a = "DEEP_SEARCH" /\ DeepSearchPairs(g) # {}

\* the code also takes a lone opening <THINK> for a THINK tag
Detected(g, a) == CompletePair(g, a) \/ (a = "THINK" /\ \E i \in 1..Len(g) : g[i] = "<THINK>")

\* the prompt of the next hop as the claim states it: the inner content
InnerPrompt(g, a) ==
    IF a = "DEEP_SEARCH" /\ PairsOf(g, a) = {} THEN DeepRemainder(g) ELSE InnerOf(g, a)

\* the prompt of the next hop as the code computes it
AmendedPrompt(g, a) ==
    IF a = "THINK"
    THEN IF PairsOf(g, a) # {} /\ InnerOf(g, a) # <<>> THEN Trim(InnerOf(g, a)) ELSE input.prompt
    ELSE InnerPrompt(g, a)

\* C1: the body of the dispatch loop runs at most 2 times (one console.log line
\* per run) and a re-route (the `continue` of the SIMPLE case) happens only in
\* its first run; every await returning or throwing and every stream ending,
\* the call completes, and it completes with exactly one message.
C1_BoundedAndCompletes ==
    /\ [](loopCount <= 2 /\ Len(consoleLog) <= 2)
    /\ [][(pc = "stream" /\ pc' = "loop") => loopCount = 1]_vars
    /\ [](pc = "done" => Len(messages) = 1)
    /\ <>(pc = "done")

C1_Witness == pc = "done" /\ loopCount = 2 /\ Len(consumed) = MaxChunks /\ error = <<>>

\* C2, as claimed: once the SIMPLE hop's text holds a complete tag pair, the
\* next hop has the action of the highest-priority pair and its inner content
\* as prompt.
C2_Original ==
    (pc = "loop" /\ loopCount = 1 /\ \E a \in TagActions : CompletePair(generatedThisLoop, a))
    => LET a == Highest(LAMBDA b : CompletePair(generatedThisLoop, b))
       IN  currentAction = a /\ currentPrompt = InnerPrompt(generatedThisLoop, a)

\* C2, amended: the SIMPLE hop re-routes exactly when its text holds a tag the
\* patterns detect (a complete pair without line feed, or a lone <THINK>); the
\* next hop has the action of highest priority among the detected ones and is
\* given as prompt the inner content of the leftmost pair (for a deep SEARCH
\* pair what follows the white space after deep), for THINK trimmed, or the
\* user's prompt when the THINK content is empty or the pair is not closed;
\* for IMAGE routing.parameters.prompt is the same text.
C2_TagChoosesNextHop ==
    LET g == generatedThisLoop
        some == \E a \in TagActions : Detected(g, a)
        a == Highest(LAMBDA b : Detected(g, b))
    IN  /\ (Succeeded /\ ~Rerouted) => ~some
        /\ Rerouted =>
            /\ some
            /\ currentAction = a
            /\ currentPrompt = AmendedPrompt(g, a)
            /\ (a = "IMAGE") = Has(routing.parameters, "prompt")
            /\ a = "IMAGE" => routing.parameters.prompt = AmendedPrompt(g, a)
            /\ Len(consoleLog) = 2 => consoleLog[2] = <<2, a>>
            /\ Succeeded => requests[Len(requests)][2] = AmendedPrompt(g, a)

C2_Witness ==
    /\ Succeeded
    /\ currentAction = "DEEP_SEARCH"
    /\ PairsOf(generatedThisLoop, "DEEP_SEARCH") = {}
    /\ PairsOf(generatedThisLoop, "THINK") # {}
    /\ currentPrompt = <<"x">>

\* C3: right after a re-route the text carried over from the SIMPLE hop holds
\* no occurrence of the matched tag text.
C3_TagStripped ==
    (pc = "loop" /\ loopCount = 1)
    => ~Contains(finalResponseText, TagDetection(generatedThisLoop, input.prompt).strip)

\* C4: a call that ended in the outer catch returned exactly one message, with
\* sender 'ai', the input's ids and the text 'An error occurred: ' followed by
\* the friendly error, and with no other key.
C4_ErrorMessageOnly ==
    /\ pc = "done" => Len(messages) = 1
    /\ (pc = "done" /\ error # <<>>) =>
          messages = <<[project_id |-> input.project_id, chat_id |-> input.chat_id,
                        sender |-> "ai",
                        text |-> <<"An error occurred: ">> \o getUserFriendlyError(error[1])]>>

C4_Witness ==
    /\ pc = "done" /\ error # <<>>
    /\ Has(metadataPayload, "groundingMetadata")
    /\ finalResponseText # <<>>

\* the stream chunks consumed in SIMPLE or SEARCH mode
IsGroundedMode(c) == c.action \in {"SIMPLE", "SEARCH"}

\* C5: on a successful return groundingMetadata holds, in arrival order, every
\* grounding chunk of every stream chunk consumed in SIMPLE or SEARCH mode.
C5_GroundingComplete ==
    Succeeded =>
        LET m == messages[1]
            got == IF Has(m, "groundingMetadata") THEN m.groundingMetadata ELSE <<>>
        IN  got = GroundingOf(SelectSeq(consumed, IsGroundedMode))

ExpectedDecision ==
    [action |-> "SIMPLE", parameters |-> <<>>, confidence |-> 1, quotaOK |-> TRUE,
     memoryLayers |-> <<"inner_personal", "outer_personal", "interests", "preferences",
                        "custom", "codebase", "aesthetic", "project">>]

\* C6: route returns SIMPLE, confidence 1, quotaOK, no parameters and the eight
\* layers for every input; the first hop is SIMPLE, and another action is
\* current only after the SIMPLE hop's text held the tag of that action.
C6_RouteAlwaysSimple ==
    /\ \A i \in Inputs : route(i.prompt, i.userId, i.apiKey, i.fileCount) = ExpectedDecision
    /\ pc = "context" => routing = ExpectedDecision
    /\ consoleLog # <<>> => consoleLog[1] = <<1, "SIMPLE">>
    /\ Rerouted =>
          /\ loopCount >= 1
          /\ consumed # <<>> /\ consumed[1].action = "SIMPLE"
          /\ \E i \in 1..Len(generatedThisLoop) :
                generatedThisLoop[i] \in {OpenTag[currentAction]} \cup
                    (IF currentAction = "DEEP_SEARCH" THEN SearchOpenAnyCase ELSE {})

C6_Witness == Succeeded /\ Len(consoleLog) = 2 /\ input.fileCount > 0

\* the SIMPLE hop's text g with one complete IMAGE pair taken out
WithoutImageTag(g) ==
    {SubSeq(g, 1, p[1] - 1) \o SubSeq(g, p[2] + 1, Len(g)) : p \in PairsOf(g, "IMAGE")}

ImageFailureNotes ==
    {<<"\n", "\n", "(Image generation failed: ", m, ")">> : m \in {"quota", "Unknown error"}}

\* C7: a call that ended in IMAGE mode did not reach the outer catch; its
\* message text is the text from before the image step (the SIMPLE hop's text
\* without the tag, as announced in the image_generation_start event), either
\* alone with image_base64 and imageStatus 'complete', or without image_base64
\* and followed by the failure note, which is also the last text passed to
\* onStreamChunk.
C7_ImageKeepsText ==
    (pc = "done" /\ currentAction = "IMAGE") =>
        LET m == messages[1]
            event == SelectSeq(streamed, LAMBDA t : t # <<>> /\ Head(t) = "image_generation_start")
            before == Tail(event[1])
        IN  /\ error = <<>>
            /\ Len(event) = 1
            /\ before \in WithoutImageTag(generatedThisLoop)
            /\ \/ /\ Has(m, "image_base64") /\ Has(m, "imageStatus")
                  /\ m.imageStatus = "complete"
                  /\ m.text = before
               \/ /\ ~Has(m, "image_base64") /\ ~Has(m, "imageStatus")
                  /\ \E note \in ImageFailureNotes :
                        m.text = before \o note /\ streamed[Len(streamed)] = note

C7_Witness ==
    /\ pc = "done" /\ currentAction = "IMAGE"
    /\ ~Has(messages[1], "image_base64")
    /\ Len(messages[1].text) > 5
    /\ Has(messages[1], "groundingMetadata")

\* C8: the returned message carries memoryToCreate exactly when the call ended
\* in the SIMPLE hop (no tag, no error) with more than 50 characters generated,
\* and then it is the one entry outer_personal / last_topic / the user's prompt.
C8_MemoryOnlyAfterLongSimple ==
    pc = "done" =>
        LET m == messages[1]
        IN  /\ Has(m, "memoryToCreate")
               <=> (Succeeded /\ ~Rerouted /\ StringLength(generatedThisLoop) > 50)
            /\ Has(m, "memoryToCreate") =>
                  m.memoryToCreate = <<[layer |-> "outer_personal", key |-> "last_topic",
                                        value |-> input.prompt]>>

C8_Witness ==
    /\ pc = "done" /\ Has(messages[1], "memoryToCreate")
    /\ StringLength(generatedThisLoop) = 51

====
